---- MODULE Spec2Model ----
(***************************************************************************)
(* Model of the record store of replit_server_inventory                    *)
(* (src/data_manager.py, class DataManager): a JSON file holding a list of *)
(* server records, with get_servers, add_server, search_servers,           *)
(* delete_server and export_to_csv.                                        *)
(*                                                                         *)
(* A string is a sequence of one-character strings, so that str.lower()    *)
(* and the substring test `in` are computed character by character.        *)
(* A file is [kind, data]: kind "missing" (no such path), "empty" (zero    *)
(* bytes), "garbage" (bytes json.load rejects), "csv" (the rows            *)
(* csv.DictWriter wrote) or "json" (the document json.dump wrote).         *)
(***************************************************************************)
EXTENDS Integers, Sequences, FiniteSets, TLC

VARIABLES file, call, pc, req, servers, res

vars == <<file, call, pc, req, servers, res>>

-----------------------------------------------------------------------------
(* Bounds *)

\* Longest store the model builds or starts from.
MaxStore == 3

-----------------------------------------------------------------------------
(* Strings *)

\* str.lower() on one character (the letters the model uses).
LowerChar(c) ==
    CASE c = "A" -> "a"
      [] c = "D" -> "d"
      [] c = "E" -> "e"
      [] c = "P" -> "p"
      [] c = "S" -> "s"
      [] c = "U" -> "u"
      [] OTHER -> c

\* str.lower()
Lower(s) == [i \in 1..Len(s) |-> LowerChar(s[i])]

\* t is a prefix of s
StartsWith(s, t) == Len(t) <= Len(s) /\ SubSeq(s, 1, Len(t)) = t

RECURSIVE In(_, _)
\* Python's `t in s` for strings: scan s from the left for an occurrence of t
\* (the empty string occurs in every string).
In(t, s) ==
    IF StartsWith(s, t) THEN TRUE
    ELSE IF s = <<>> THEN FALSE
    ELSE In(t, Tail(s))

-----------------------------------------------------------------------------
(* Records and files *)

FieldNames == <<"product_name", "serial_number", "rack_location", "username">>

Products == { <<"D", "e">>, <<"h", "p">> }
Serials  == { <<"s", "1">>, <<"S", "1">>, <<"s", "2">>, <<"S", "2">>, <<"s", "3">> }
Racks    == { <<"A", "7">> }
Users    == { <<"E", "u">> }

\* The server dicts the callers pass to add_server.
Records ==
    [product_name : Products, serial_number : Serials,
     rack_location : Racks, username : Users]

\* Serial numbers given to delete_server: the stored ones and one never stored.
Keys == Serials \cup { <<"s", "9">> }

\* Search terms: empty, single letters in either case, a digit, a whole field,
\* a string that occurs nowhere.
Terms == { <<>>, <<"d">>, <<"S">>, <<"a">>, <<"1">>, <<"U">>, <<"h", "P">>, <<"z">> }

RECURSIVE SeqsUpTo(_, _)
\* The sequences over S of length at most n.
SeqsUpTo(S, n) ==
    IF n = 0 THEN { <<>> }
    ELSE LET shorter == SeqsUpTo(S, n - 1)
         IN  shorter \cup { Append(q, x) : q \in { p \in shorter : Len(p) = n - 1 }, x \in S }

\* json.dump of one server dict: its key/value pairs in insertion order.
DumpServer(server) == [i \in 1..Len(FieldNames) |-> <<FieldNames[i], server[FieldNames[i]]>>]

\* json.dump(servers, f)
JsonDump(list) == [i \in 1..Len(list) |-> DumpServer(list[i])]

\* json.load of one object: the dict of its pairs.
LoadServer(obj) ==
    [k \in { obj[i][1] : i \in 1..Len(obj) } |->
        (CHOOSE p \in { obj[i] : i \in 1..Len(obj) } : p[1] = k)[2]]

\* json.load(f) of a document json.dump wrote
JsonLoad(doc) == [i \in 1..Len(doc) |-> LoadServer(doc[i])]

MissingFile == [kind |-> "missing", data |-> <<>>]
EmptyFile   == [kind |-> "empty", data |-> <<>>]
GarbageFile == [kind |-> "garbage", data |-> <<>>]
JsonFile(list) == [kind |-> "json", data |-> JsonDump(list)]
CsvFile(rows) == [kind |-> "csv", data |-> rows]

\* What a call returns or raises: exc is "none", "ValueError" or "Exception".
Returned(val) == [exc |-> "none", msg |-> "", val |-> val]
Raised(exc, msg) == [exc |-> exc, msg |-> msg, val |-> <<>>]

\* DataManager.ensure_file_exists
ensure_file_exists(f) == IF f.kind = "missing" THEN JsonFile(<<>>) ELSE f

\* DataManager.get_servers: the list, [] on JSONDecodeError, Exception otherwise.
get_servers(f) ==
    IF f.kind = "json" THEN Returned(JsonLoad(f.data))
    ELSE IF f.kind = "missing" THEN Raised("Exception", "Error reading server data")
    ELSE Returned(<<>>)

\* DataManager._save_servers: the whole file is replaced by the dumped list.
save_servers(f, list) == JsonFile(list)

\* Variant of SameSerial: the serial numbers are compared as written.
SameSerialExact(s, serial_number) == s.serial_number = serial_number

\* s['serial_number'].lower() == serial_number.lower()
SameSerial(s, serial_number) == Lower(s.serial_number) = Lower(serial_number)

\* Variant of add_loaded: the new record is put first.
AddLoadedFront(f, list, server) ==
    IF \E i \in 1..Len(list) : Lower(list[i].serial_number) = Lower(server.serial_number)
    THEN [file |-> f,
          out |-> Raised("ValueError", "A server with this serial number already exists")]
    ELSE [file |-> save_servers(f, <<server>> \o list), out |-> Returned("None")]

\* Variant of add_loaded: no duplicate check.
AddLoadedUnchecked(f, list, server) ==
    [file |-> save_servers(f, Append(list, server)), out |-> Returned("None")]

\* Variant of add_loaded: the list is loaded again just before the save.
AddLoadedReread(f, list, server) ==
    LET now == get_servers(f).val
    IN  IF \E i \in 1..Len(now) : Lower(now[i].serial_number) = Lower(server.serial_number)
        THEN [file |-> f,
              out |-> Raised("ValueError", "A server with this serial number already exists")]
        ELSE [file |-> save_servers(f, Append(now, server)), out |-> Returned("None")]

\* add_server after its get_servers() returned list: the duplicate check, the
\* append and the save, on the file as it is by then.
add_loaded(f, list, server) ==
    IF \E i \in 1..Len(list) : SameSerial(list[i], server.serial_number)
    THEN [file |-> f,
          out |-> Raised("ValueError", "A server with this serial number already exists")]
    ELSE [file |-> save_servers(f, Append(list, server)), out |-> Returned("None")]

\* DataManager.add_server: the file afterwards and what the call returns or raises.
add_server(f, server) ==
    LET got == get_servers(f)
    IN  IF got.exc # "none" THEN [file |-> f, out |-> got]
        ELSE add_loaded(f, got.val, server)

\* Variant of SearchHit: username is not searched.
SearchHitNoUsername(server, search_term) ==
    \/ In(search_term, Lower(server.product_name))
    \/ In(search_term, Lower(server.serial_number))
    \/ In(search_term, Lower(server.rack_location))

\* The condition of the comprehension in search_servers, search_term already lower-cased.
SearchHit(server, search_term) ==
    \/ In(search_term, Lower(server.product_name))
    \/ In(search_term, Lower(server.serial_number))
    \/ In(search_term, Lower(server.rack_location))
    \/ In(search_term, Lower(server.username))

\* DataManager.search_servers
search_servers(f, search_term) ==
    LET got == get_servers(f)
        term == Lower(search_term)
        Hit(server) == SearchHit(server, term)
    IN  IF got.exc # "none" THEN [file |-> f, out |-> got]
        ELSE [file |-> f, out |-> Returned(SelectSeq(got.val, Hit))]

\* Variant of delete_loaded: the file is rewritten without the length test.
DeleteLoadedAlwaysSaves(f, list, serial_number) ==
    LET Keep(s) == Lower(s.serial_number) # Lower(serial_number)
    IN  [file |-> save_servers(f, SelectSeq(list, Keep)), out |-> Returned(TRUE)]

\* Variant of delete_loaded: the filter keeps the matching records.
DeleteLoadedKeepsMatch(f, list, serial_number) ==
    LET Keep(s) == Lower(s.serial_number) = Lower(serial_number)
        filtered_servers == SelectSeq(list, Keep)
    IN  IF Len(filtered_servers) = Len(list)
        THEN [file |-> f,
              out |-> Raised("ValueError", "No server found with this serial number")]
        ELSE [file |-> save_servers(f, filtered_servers), out |-> Returned(TRUE)]

\* delete_server after its get_servers() returned list: the filter, the
\* length test and the save, on the file as it is by then.
delete_loaded(f, list, serial_number) ==
    LET Keep(s) == ~SameSerial(s, serial_number)
        filtered_servers == SelectSeq(list, Keep)
    IN  IF Len(filtered_servers) = Len(list)
        THEN [file |-> f,
              out |-> Raised("ValueError", "No server found with this serial number")]
        ELSE [file |-> save_servers(f, filtered_servers), out |-> Returned(TRUE)]

\* DataManager.delete_server
delete_server(f, serial_number) ==
    LET got == get_servers(f)
    IN  IF got.exc # "none" THEN [file |-> f, out |-> got]
        ELSE delete_loaded(f, got.val, serial_number)

-----------------------------------------------------------------------------
(* CSV export *)

\* self.filename, and the paths given to export_to_csv: None (the timestamped
\* default), another file, the store file under its relative and its absolute
\* name, and a path in a directory that does not exist.
Filename == "servers.json"
ExportPaths == { "None", "out.csv", "servers.json", "/cwd/servers.json", "nodir/out.csv" }

\* The default name and os.path.abspath, with /cwd the working directory.
AbsPath(export_path) ==
    LET p == IF export_path = "None" THEN "server_inventory_<timestamp>.csv" ELSE export_path
    IN  IF p = "/cwd/servers.json" THEN p ELSE "/cwd/" \o p

\* open(export_path, 'w') succeeds unless the directory is missing.
CanOpen(abs_path) == abs_path # "/cwd/nodir/out.csv"

headers == <<"Product Name", "Serial Number", "Rack Location", "Username">>

\* The dict handed to writer.writerow, laid out in the order of fieldnames.
CsvRow(server) ==
    <<server.product_name, server.serial_number, server.rack_location, server.username>>

\* Variant of CsvRows: no header row.
CsvRowsNoHeader(list) == [i \in 1..Len(list) |-> CsvRow(list[i])]

\* writer.writeheader() and one writer.writerow per server
CsvRows(list) == <<headers>> \o [i \in 1..Len(list) |-> CsvRow(list[i])]

\* DataManager.export_to_csv: the store file afterwards, what the call returns
\* or raises, and the rows written to export_path (none when nothing is written).
export_to_csv(f, export_path) ==
    LET abs_path == AbsPath(export_path)
        got == get_servers(f)
    IN  IF got.exc # "none" THEN [file |-> f, out |-> got, written |-> <<>>]
        ELSE IF got.val = <<>>
             THEN [file |-> f, out |-> Raised("ValueError", "No servers found to export"),
                   written |-> <<>>]
        ELSE IF ~CanOpen(abs_path)
             THEN [file |-> f, out |-> Raised("Exception", "Error exporting to CSV"),
                   written |-> <<>>]
        ELSE [file |-> IF abs_path = AbsPath(Filename) THEN CsvFile(CsvRows(got.val)) ELSE f,
              out |-> Returned(abs_path),
              written |-> CsvRows(got.val)]

-----------------------------------------------------------------------------
(* One caller: the calls of the presentation layer, one at a time *)

NoServer == [product_name |-> <<>>, serial_number |-> <<>>,
             rack_location |-> <<>>, username |-> <<>>]

\* The last call: its name and arguments, the store file before it
\* (before), what it returned or raised (out), and the rows it wrote to its
\* export path (written).
Call(op, server, key, term, path, before, out, written) ==
    [op |-> op, server |-> server, key |-> key, term |-> term, path |-> path,
     before |-> before, out |-> out, written |-> written]

NoCall(f) == Call("none", NoServer, <<>>, <<>>, "None", f, Returned("None"), <<>>)

Writers == {1, 2}

\* The writers of the two-process specification, all idle.
WritersIdle ==
    /\ pc = [w \in Writers |-> "idle"]
    /\ req = [w \in Writers |-> [op |-> "none", server |-> NoServer, key |-> <<>>]]
    /\ servers = [w \in Writers |-> <<>>]
    /\ res = [w \in Writers |-> Returned("None")]

\* The files a DataManager may be constructed on: none, an empty one or an
\* undecodable one; every other store is built by the calls below.
PreFiles == { MissingFile, EmptyFile, GarbageFile }

\* DataManager.__init__ on any of these files.
Init ==
    /\ \E pre \in PreFiles : file = ensure_file_exists(pre)
    /\ call = NoCall(file)
    /\ WritersIdle

\* DataManager.__init__ where no file exists yet: the empty store.
InitFresh ==
    /\ file = ensure_file_exists(MissingFile)
    /\ call = NoCall(file)
    /\ WritersIdle

GetServers ==
    /\ file' = file
    /\ call' = Call("get_servers", NoServer, <<>>, <<>>, "None", file, get_servers(file), <<>>)
    /\ UNCHANGED <<pc, req, servers, res>>

AddServer ==
    \E server \in Records :
        LET r == add_server(file, server)
        IN  /\ r.file.kind = "json" => Len(r.file.data) <= MaxStore
            /\ file' = r.file
            /\ call' = Call("add_server", server, <<>>, <<>>, "None", file, r.out, <<>>)
            /\ UNCHANGED <<pc, req, servers, res>>

SearchServers ==
    \E term \in Terms :
        LET r == search_servers(file, term)
        IN  /\ file' = r.file
            /\ call' = Call("search_servers", NoServer, <<>>, term, "None", file, r.out, <<>>)
            /\ UNCHANGED <<pc, req, servers, res>>

DeleteServer ==
    \E key \in Keys :
        LET r == delete_server(file, key)
        IN  /\ file' = r.file
            /\ call' = Call("delete_server", NoServer, key, <<>>, "None", file, r.out, <<>>)
            /\ UNCHANGED <<pc, req, servers, res>>

ExportToCsv ==
    \E path \in ExportPaths :
        LET r == export_to_csv(file, path)
        IN  /\ file' = r.file
            /\ call' = Call("export_to_csv", NoServer, <<>>, <<>>, path, file, r.out, r.written)
            /\ UNCHANGED <<pc, req, servers, res>>

\* The environment: the backing file is removed between two calls.
RemoveFile ==
    /\ file.kind # "missing"
    /\ file' = MissingFile
    /\ call' = NoCall(file')
    /\ UNCHANGED <<pc, req, servers, res>>

Next ==
    \/ GetServers
    \/ AddServer
    \/ SearchServers
    \/ DeleteServer
    \/ ExportToCsv
    \/ RemoveFile

Spec == Init /\ [][Next]_vars

NextFresh ==
    \/ AddServer
    \/ DeleteServer

\* add_server and delete_server on the store one DataManager created.
SpecFresh == InitFresh /\ [][NextFresh]_vars

-----------------------------------------------------------------------------
(* Two writers on one file: each call is a read step, then a write step *)

Requests ==
    { [op |-> "add_server", server |-> r, key |-> <<>>] : r \in Records }
        \cup { [op |-> "delete_server", server |-> NoServer, key |-> k] : k \in Keys }

\* No two records of list have the same lower-cased serial_number.
UniqueSerials(list) ==
    \A i, j \in 1..Len(list) :
        i # j => Lower(list[i].serial_number) # Lower(list[j].serial_number)

\* A store that earlier add_server calls left, one slot short of the bound.
InitRace ==
    /\ \E list \in { l \in SeqsUpTo(Records, MaxStore - 1) : UniqueSerials(l) } :
         file = JsonFile(list)
    /\ call = NoCall(file)
    /\ WritersIdle

\* Writer w calls add_server or delete_server, which first runs
\* servers = self.get_servers(); no lock is taken.
WriterRead(w) ==
    /\ pc[w] = "idle"
    /\ \E q \in Requests :
         LET got == get_servers(file)
         IN  /\ req' = [req EXCEPT ![w] = q]
             /\ IF got.exc # "none"
                THEN /\ pc' = [pc EXCEPT ![w] = "done"]
                     /\ res' = [res EXCEPT ![w] = got]
                     /\ UNCHANGED servers
                ELSE /\ pc' = [pc EXCEPT ![w] = "loaded"]
                     /\ servers' = [servers EXCEPT ![w] = got.val]
                     /\ UNCHANGED res
    /\ UNCHANGED <<file, call>>

\* Writer w finishes its call on the list it loaded: it raises, or rewrites
\* the whole file from that list.
WriterWrite(w) ==
    /\ pc[w] = "loaded"
    /\ LET r == IF req[w].op = "add_server"
                THEN add_loaded(file, servers[w], req[w].server)
                ELSE delete_loaded(file, servers[w], req[w].key)
       IN  /\ file' = r.file
           /\ res' = [res EXCEPT ![w] = r.out]
    /\ pc' = [pc EXCEPT ![w] = "done"]
    /\ UNCHANGED <<call, req, servers>>

NextRace == \E w \in Writers : WriterRead(w) \/ WriterWrite(w)

SpecRace == InitRace /\ [][NextRace]_vars

-----------------------------------------------------------------------------
(* Properties *)

\* What get_servers() returns on the file as it is now, and as it was before
\* the last call.
StoreNow == get_servers(file)
StoreBefore == get_servers(call.before)

\* The places of list whose serial_number equals serial_number ignoring case.
MatchesAt(list, serial_number) ==
    { i \in 1..Len(list) : Lower(list[i].serial_number) = Lower(serial_number) }

\* sub is list restricted to the places in keep, in the order of list.
IsRestriction(sub, list, keep) ==
    /\ Len(sub) = Cardinality(keep)
    /\ \A k \in keep : sub[Cardinality({ m \in keep : m <= k })] = list[k]

\* C1: from the empty store created at construction, after any sequence of
\* add_server and delete_server calls by one caller, the persisted store holds
\* no two records whose serial_number are equal after lower-casing.
C1_NoDuplicateSerials ==
    /\ file.kind = "json"
    /\ \A i, j \in 1..Len(StoreNow.val) :
         Lower(StoreNow.val[i].serial_number) = Lower(StoreNow.val[j].serial_number) => i = j

\* C1's case: a full store, reached by adds, on which an add has just failed.
C1_Witness ==
    /\ call.op = "add_server"
    /\ call.out.exc = "ValueError"
    /\ Len(StoreNow.val) = MaxStore

\* C2: when the new record's serial_number matches no record of the store S
\* ignoring case, add_server returns and a following get_servers() returns S
\* with the record appended as its last element, the prior records unmodified
\* and in their prior order.
C2_AddAppends ==
    ( /\ call.op = "add_server"
      /\ StoreBefore.exc = "none"
      /\ MatchesAt(StoreBefore.val, call.server.serial_number) = {} )
    => /\ call.out.exc = "none"
       /\ StoreNow.exc = "none"
       /\ Len(StoreNow.val) = Len(StoreBefore.val) + 1
       /\ \A i \in 1..Len(StoreBefore.val) : StoreNow.val[i] = StoreBefore.val[i]
       /\ StoreNow.val[Len(StoreNow.val)] = call.server

\* C2's case: a record added to a store that already held two.
C2_Witness ==
    /\ call.op = "add_server"
    /\ call.out.exc = "none"
    /\ Len(StoreBefore.val) = 2
    /\ Len(StoreNow.val) = 3

\* C3: when the store holds a record whose serial_number equals the new one's
\* ignoring case, add_server raises ValueError (duplicate key), the file is
\* not rewritten and get_servers() returns what it returned before.
C3_DuplicateRejected ==
    ( /\ call.op = "add_server"
      /\ StoreBefore.exc = "none"
      /\ MatchesAt(StoreBefore.val, call.server.serial_number) # {} )
    => /\ call.out.exc = "ValueError"
       /\ call.out.msg = "A server with this serial number already exists"
       /\ file = call.before
       /\ StoreNow = StoreBefore

\* C3's case: the stored serial_number and the new one differ only by case.
C3_Witness ==
    /\ call.op = "add_server"
    /\ call.out.exc = "ValueError"
    /\ \E i \in MatchesAt(StoreBefore.val, call.server.serial_number) :
         StoreBefore.val[i].serial_number # call.server.serial_number

\* C4: when the serial number matches no record of the store ignoring case,
\* delete_server raises ValueError (not found) and leaves the store unchanged.
C4_DeleteMissingFails ==
    ( /\ call.op = "delete_server"
      /\ StoreBefore.exc = "none"
      /\ MatchesAt(StoreBefore.val, call.key) = {} )
    => /\ call.out.exc = "ValueError"
       /\ call.out.msg = "No server found with this serial number"
       /\ file = call.before
       /\ StoreNow = StoreBefore

\* C4's case: a delete that found nothing in a store of two records.
C4_Witness ==
    /\ call.op = "delete_server"
    /\ call.out.exc = "ValueError"
    /\ call.before.kind = "json"
    /\ Len(StoreBefore.val) = 2

C6_LoadNeverRaises ==
    ( /\ call.op = "get_servers"
      /\ call.before.kind # "json" )
    => call.out = Returned(<<>>)

\* The part of C6 the code keeps: an empty or undecodable file (the rows of
\* an export among them) loads as the empty sequence, and a file missing at
\* construction is created holding the empty list.
C6_EmptyOrCorruptLoadsEmpty ==
    ( /\ call.op = "get_servers"
      /\ call.before.kind \in { "empty", "garbage", "csv" } )
    => call.out = Returned(<<>>)

\* t occurs in s at some offset.
Occurs(t, s) ==
    \E off \in 0..(Len(s) - Len(t)) : \A j \in 1..Len(t) : s[off + j] = t[j]

\* Lower-cased term is a substring of at least one lower-cased field of r.
TermMatches(r, term) ==
    \E k \in { "product_name", "serial_number", "rack_location", "username" } :
        Occurs(Lower(term), Lower(r[k]))

\* C7: search_servers(t) returns exactly the records of the store for which
\* lower-cased t is a substring of one of the four lower-cased fields, in
\* store order: none omitted, none added.
C7_SearchReturnsMatches ==
    ( /\ call.op = "search_servers"
      /\ StoreBefore.exc = "none" )
    => /\ call.out.exc = "none"
       /\ IsRestriction(call.out.val, StoreBefore.val,
                         { i \in 1..Len(StoreBefore.val) :
                             TermMatches(StoreBefore.val[i], call.term) })

\* C7's case: an upper-case term found in the first and third of three
\* records and not in the second.
C7_Witness ==
    /\ call.op = "search_servers"
    /\ Len(StoreBefore.val) = 3
    /\ call.term # Lower(call.term)
    /\ call.out.val = <<StoreBefore.val[1], StoreBefore.val[3]>>
    /\ ~TermMatches(StoreBefore.val[2], call.term)

\* C8: export_to_csv on a store without records raises ValueError (empty
\* store) and writes nothing; on a store of n >= 1 records, the export file
\* once opened receives the header row Product Name, Serial Number, Rack
\* Location, Username and then one row per record in store order: n + 1 rows.
C8_ExportRows ==
    ( /\ call.op = "export_to_csv"
      /\ StoreBefore.exc = "none" )
    => IF StoreBefore.val = <<>>
       THEN /\ call.out.exc = "ValueError"
            /\ call.out.msg = "No servers found to export"
            /\ call.written = <<>>
       ELSE CanOpen(AbsPath(call.path)) =>
            /\ call.out.exc = "none"
            /\ Len(call.written) = Len(StoreBefore.val) + 1
            /\ call.written[1] =
                 <<"Product Name", "Serial Number", "Rack Location", "Username">>
            /\ \A i \in 1..Len(StoreBefore.val) :
                 /\ Len(call.written[i + 1]) = 4
                 /\ call.written[i + 1][1] = StoreBefore.val[i].product_name
                 /\ call.written[i + 1][2] = StoreBefore.val[i].serial_number
                 /\ call.written[i + 1][3] = StoreBefore.val[i].rack_location
                 /\ call.written[i + 1][4] = StoreBefore.val[i].username

\* C8's case: three records exported to the default path, four rows written.
C8_Witness ==
    /\ call.op = "export_to_csv"
    /\ call.path = "None"
    /\ Len(StoreBefore.val) = 3
    /\ Len(call.written) = 4

\* C8's other case: the export of a store without records has failed.
C8_WitnessEmpty ==
    /\ call.op = "export_to_csv"
    /\ call.before.kind = "json"
    /\ call.out.msg = "No servers found to export"

\* C10: get_servers, search_servers and export_to_csv leave the backing
\* store unchanged: get_servers() returns the same before and after each.
C10_ReadsLeaveStore ==
    call.op \in { "get_servers", "search_servers", "export_to_csv" }
        => StoreNow = StoreBefore

\* The part of C10 the code keeps: get_servers, search_servers, and
\* export_to_csv to any path that is not the store file's own, leave the file
\* as it was.
C10_ReadsLeaveStoreUnlessAliased ==
    ( /\ call.op \in { "get_servers", "search_servers", "export_to_csv" }
      /\ AbsPath(call.path) # AbsPath(Filename) )
    => file = call.before

-----------------------------------------------------------------------------
(* Properties of the two writers *)

\* Both calls have returned without raising.
BothSucceeded == \A w \in Writers : pc[w] = "done" /\ res[w].exc = "none"

\* The lower-cased serial number a request is about.
RequestKey(q) ==
    Lower(IF q.op = "add_server" THEN q.server.serial_number ELSE q.key)

\* The final store shows what writer w's call was to do: its record is
\* stored, or no record with its serial number is left.
EffectKept(w) ==
    IF req[w].op = "add_server"
    THEN \E i \in 1..Len(StoreNow.val) : StoreNow.val[i] = req[w].server
    ELSE MatchesAt(StoreNow.val, req[w].key) = {}

\* C9: no lock is taken, so a lost update is reachable. When two writers
\* about different serial numbers both load the same store (each read step
\* before the other's write step) and both report success, the final store
\* keeps the effect of exactly one of them and lacks the other's.
C9_LostUpdate ==
    ( /\ BothSucceeded
      /\ servers[1] = servers[2]
      /\ RequestKey(req[1]) # RequestKey(req[2]) )
    => /\ EffectKept(1) \/ EffectKept(2)
       /\ ~(EffectKept(1) /\ EffectKept(2))

\* C9's case: two adds of distinct serial numbers both succeeded and only
\* one of the two records is stored.
C9_Witness ==
    /\ BothSucceeded
    /\ req[1].op = "add_server"
    /\ req[2].op = "add_server"
    /\ RequestKey(req[1]) # RequestKey(req[2])
    /\ Len(StoreNow.val) = Len(servers[1]) + 1
    /\ ~EffectKept(1)
    /\ EffectKept(2)

\* Whatever the interleaving, the writers never store two records with the
\* same lower-cased serial number.
RaceKeepsSerialsUnique == UniqueSerials(StoreNow.val)

====
